---- MODULE Spec2Model ----
(***************************************************************************)
(* Model of package policylru (gogama/policy-lru): a policy-driven LRU     *)
(* cache.  The cache is the pair (c.ll, c.cache): a container/list of      *)
(* *entry, front = most recently used, and a map from key to list element. *)
(* Every exported method is one action, run to completion.  A call that    *)
(* panics sets fault and ends the run: no further call is made.            *)
(* A second specification, SpecSteps, runs the eviction sweep of Add and   *)
(* of Evict one loop iteration at a time; pc is the method whose sweep is  *)
(* under way.                                                              *)
(* The variables touched and ref are reference models kept beside the      *)
(* cache; no method reads them.  The variables seen, total and shadow are  *)
(* what a handler sees and keeps: Len() at each of its calls, a running    *)
(* total of value sizes, and a map rebuilt from its calls alone.           *)
(***************************************************************************)
EXTENDS Integers, Sequences, FiniteSets, TLC

\* Bounds of the model.
MaxKey == 3
MaxN == 2

\* The cache is instantiated as Cache[int, bool]: keys are small integers,
\* values are booleans, and the zero value of the Value type is false.
Keys == 1..MaxKey
Values == BOOLEAN
Zero == FALSE

VARIABLES
    pc,         \* "idle" between calls, else the method whose sweep is running
    Policy,     \* c.Policy: the eviction policy, or nil
    Handler,    \* c.Handler: "set" or "nil"
    alloc,      \* c.ll and c.cache are non-nil (they are assigned together)
    ll,         \* c.ll: the list of entries, front first
    cache,      \* c.cache: the keys the map holds (each maps to its element)
    last,       \* the last call: its name, arguments and results
    notes,      \* Handler calls made by the last call, in order
    queries,    \* Policy.Evict calls made by the last call, in order
    fault,      \* the last call panicked (nil pointer dereference)
    seen,       \* c.Len() as read inside each Handler call of the last call
    total,      \* a handler's running total of value sizes (myPolicy.totalSize)
    shadow,     \* a handler's own map, kept from Added and Removed calls alone
    touched,    \* reference: the keys held, by most recent touch, newest first
    ref         \* reference: a capacity-N LRU run beside a MaxCount(N) cache

vars == <<pc, Policy, Handler, alloc, ll, cache, last, notes, queries, fault,
          seen, total, shadow, touched, ref>>

\* The policies a cache is built with: nil, MaxCount(n), or a PolicyFunc
\* wrapping any function the caller wrote.
Policies ==
    {[kind |-> "nil", n |-> 0]}
        \cup {[kind |-> "MaxCount", n |-> n] : n \in 1..MaxN}
        \cup {[kind |-> "PolicyFunc", n |-> 0]}

\* What the caller's function answers during one call: true to its first f
\* queries and false to the next one.  A sweep ends at the first false, so
\* these are all the answer sequences a sweep can see.
PolicyInputs == IF Policy.kind = "PolicyFunc" THEN 0..(Len(ll) + 1) ELSE {0}

----------------------------------------------------------------------------
(* Sequence helpers *)

KeysOf(l) == [i \in 1..Len(l) |-> l[i].key]

Range(s) == {s[i] : i \in 1..Len(s)}

Without(s, k) == SelectSeq(s, LAMBDA x : x # k)

WithoutKey(l, k) == SelectSeq(l, LAMBDA e : e.key # k)

Min(a, b) == IF a < b THEN a ELSE b

----------------------------------------------------------------------------
(* container/list *)

PushFront(l, e) == <<e>> \o l

ListRemove(l, i) == SubSeq(l, 1, i - 1) \o SubSeq(l, i + 1, Len(l))

\* Faulty variants of MoveToFront: one leaves the element where it is, one
\* exchanges it with the front element.
MoveToFront_Stay(l, i) == l

MoveToFront_Swap(l, i) == [l EXCEPT ![1] = l[i], ![i] = l[1]]

MoveToFront(l, i) == <<l[i]>> \o ListRemove(l, i)

Back(l) == l[Len(l)]

\* c.cache[k]: the element the map holds for k.
Elem(l, k) == CHOOSE i \in 1..Len(l) : l[i].key = k

----------------------------------------------------------------------------
(* Handler and Policy calls *)

Added(k, old, new, update) ==
    [type |-> "Added", key |-> k, old |-> old, new |-> new, update |-> update]

Removed(k, v) ==
    [type |-> "Removed", key |-> k, old |-> v, new |-> v, update |-> FALSE]

Notify(ns, note) == IF Handler # "nil" THEN Append(ns, note) ELSE ns

\* The handler, when there is one, reads c.Len() during its call.
See(sn, n) == IF Handler # "nil" THEN Append(sn, n) ELSE sn

\* myValue.valueSize of a value.
Size(v) == IF v THEN 1 ELSE 0

\* What myPolicy.Added and myPolicy.Removed do to totalSize.
Delta(note) ==
    IF note.type = "Added" THEN Size(note.new) - Size(note.old)
    ELSE 0 - Size(note.old)

RECURSIVE SumDelta(_)
SumDelta(ns) == IF ns = <<>> THEN 0 ELSE Delta(Head(ns)) + SumDelta(Tail(ns))

RECURSIVE SizeOf(_)
SizeOf(l) == IF l = <<>> THEN 0 ELSE Size(Head(l).value) + SizeOf(Tail(l))

\* A handler that keeps its own map: Added sets k to new, Removed deletes k.
RECURSIVE ShadowApply(_, _)
ShadowApply(sh, ns) ==
    IF ns = <<>> THEN sh
    ELSE LET x == Head(ns)
             rest == {e \in sh : e.key # x.key}
         IN ShadowApply(IF x.type = "Added"
                        THEN rest \cup {[key |-> x.key, value |-> x.new]}
                        ELSE rest,
                        Tail(ns))

\* Faulty variant of maxCountPolicy.Evict: off by one.
maxCountPolicyEvict_AtLeast(n) == n >= Policy.n

maxCountPolicyEvict(n) == n > Policy.n

\* p.Evict(k, v, n), as the (asked+1)-th query of the call.
PolicyEvict(f, asked, k, v, n) ==
    IF Policy.kind = "MaxCount" THEN maxCountPolicyEvict(n) ELSE asked < f

----------------------------------------------------------------------------
(* The cache state a method body works on *)

State(l, c, ns, sn) ==
    [ll |-> l, cache |-> c, notes |-> ns, seen |-> sn, queries |-> <<>>,
     n |-> 0, fault |-> FALSE, evicts |-> 0]

\* One Policy.Evict call about entry e of state st, with its answer, and
\* what a policy sharing the handler's state reads at that moment.
Query(st, e, ans) ==
    [key |-> e.key, value |-> e.value, n |-> Len(st.ll), ans |-> ans,
     noted |-> Len(st.notes),
     total |-> total + SumDelta(st.notes),
     size |-> SizeOf(st.ll)]

\* Faulty variant of removeElement: unlinks the back element, not ele.
removeElement_Back(st, i, k) ==
    [st EXCEPT !.ll = ListRemove(st.ll, Len(st.ll)),
               !.cache = st.cache \ {k},
               !.notes = Notify(st.notes, Removed(k, st.ll[i].value))]

\* Faulty variant of removeElement: the handler is given the zero value.
removeElement_ZeroValue(st, i, k) ==
    [st EXCEPT !.ll = ListRemove(st.ll, i),
               !.cache = st.cache \ {k},
               !.notes = Notify(st.notes, Removed(k, Zero)),
               !.seen = See(st.seen, Len(st.ll) - 1)]

\* Faulty variant of removeElement: the key stays in the map.
removeElement_NoDelete(st, i, k) ==
    [st EXCEPT !.ll = ListRemove(st.ll, i),
               !.notes = Notify(st.notes, Removed(k, st.ll[i].value)),
               !.seen = See(st.seen, Len(st.ll) - 1)]

\* Faulty variant of removeElement: the handler is notified but the entry
\* stays on the list and in the map.
removeElement_Keep(st, i, k) ==
    [st EXCEPT !.notes = Notify(st.notes, Removed(k, st.ll[i].value)),
               !.seen = See(st.seen, Len(st.ll))]

removeElement(st, i, k) ==
    [st EXCEPT !.ll = ListRemove(st.ll, i),
               !.cache = st.cache \ {k},
               !.notes = Notify(st.notes, Removed(k, st.ll[i].value)),
               !.seen = See(st.seen, Len(st.ll) - 1)]

\* Faulty variant of the Evict loop: a declined entry is skipped and the
\* entry before it is tried (ele = ele.Prev() instead of break).
RECURSIVE EvictScan(_, _, _)
EvictScan(st, f, i) ==
    IF i = 0
    THEN st
    ELSE LET e == st.ll[i]
             ans == PolicyEvict(f, Len(st.queries), e.key, e.value, Len(st.ll))
             q == Append(st.queries,
                         [key |-> e.key, value |-> e.value,
                          n |-> Len(st.ll), ans |-> ans])
         IN IF ans
            THEN EvictScan([removeElement(st, i, e.key)
                               EXCEPT !.queries = q, !.n = st.n + 1], f, i - 1)
            ELSE EvictScan([st EXCEPT !.queries = q], f, i - 1)

EvictLoop_SkipDeclined(st, f) == EvictScan(st, f, Len(st.ll))

\* Faulty variant of the Evict loop: n++ is outside the if, so a declined
\* entry is counted too.
RECURSIVE EvictLoop_CountAsked(_, _)
EvictLoop_CountAsked(st, f) ==
    IF st.ll = <<>>
    THEN st
    ELSE LET e == Back(st.ll)
             ans == PolicyEvict(f, Len(st.queries), e.key, e.value, Len(st.ll))
             q == Append(st.queries,
                         [key |-> e.key, value |-> e.value,
                          n |-> Len(st.ll), ans |-> ans])
         IN IF ans
            THEN EvictLoop_CountAsked([removeElement(st, Len(st.ll), e.key)
                                          EXCEPT !.queries = q, !.n = st.n + 1], f)
            ELSE [st EXCEPT !.queries = q, !.n = st.n + 1]

RECURSIVE EvictLoop_CountAfter(_, _)
EvictLoop_CountAfter(st, f) ==
    IF st.ll = <<>>
    THEN st
    ELSE LET e == Back(st.ll)
             ans == PolicyEvict(f, Len(st.queries), e.key, e.value,
                                Len(st.ll) - 1)
             q == Append(st.queries,
                         [Query(st, e, ans) EXCEPT !.n = Len(st.ll) - 1])
         IN IF ans
            THEN EvictLoop_CountAfter([removeElement(st, Len(st.ll), e.key)
                                          EXCEPT !.queries = q, !.n = st.n + 1], f)
            ELSE [st EXCEPT !.queries = q]

RECURSIVE EvictLoop(_, _)
EvictLoop(st, f) ==
    IF st.ll = <<>>
    THEN st
    ELSE LET e == Back(st.ll)
             ans == PolicyEvict(f, Len(st.queries), e.key, e.value, Len(st.ll))
             q == Append(st.queries, Query(st, e, ans))
         IN IF ans
            THEN EvictLoop([removeElement(st, Len(st.ll), e.key)
                               EXCEPT !.queries = q, !.n = st.n + 1], f)
            ELSE [st EXCEPT !.queries = q]

\* Faulty variant of Cache.Evict: the nil check of the policy is missing, so
\* a nil policy is called as soon as there is a candidate.
EvictBody_NoNilCheck(st, isAlloc, f) ==
    LET s == [st EXCEPT !.evicts = st.evicts + 1]
    IN IF ~isAlloc \/ (Policy.kind = "nil" /\ st.ll # <<>>)
       THEN [s EXCEPT !.fault = TRUE]
       ELSE EvictLoop(s, f)

\* The body of Cache.Evict on state st; isAlloc says whether c.ll is non-nil.
EvictBody(st, isAlloc, f) ==
    LET s == [st EXCEPT !.evicts = st.evicts + 1]
    IN IF Policy.kind = "nil" THEN s
       ELSE IF ~isAlloc THEN [s EXCEPT !.fault = TRUE]
       ELSE EvictLoop(s, f)

\* Faulty variant of Cache.Add: on an insert, the handler is told of the new
\* entry only after the sweep.
AddBody_NotifyAfterEvict(k, v, f) ==
    IF k \in cache
    THEN LET i == Elem(ll, k)
             old == ll[i].value
             l1 == MoveToFront(ll, i)
         IN State([l1 EXCEPT ![1].value = v], cache,
                  Notify(<<>>, Added(k, old, v, TRUE)), See(<<>>, Len(ll)))
    ELSE LET st == EvictBody(State(PushFront(ll, [key |-> k, value |-> v]),
                                   cache \cup {k}, <<>>, <<>>),
                             TRUE, f)
         IN [st EXCEPT !.notes = Notify(st.notes, Added(k, Zero, v, FALSE)),
                       !.seen = See(st.seen, Len(st.ll))]

\* Faulty variant of Cache.Add: on an update, old is read after e.value was
\* overwritten.
AddBody_OldAfterWrite(k, v, f) ==
    IF k \in cache
    THEN LET i == Elem(ll, k)
             l1 == MoveToFront(ll, i)
         IN State([l1 EXCEPT ![1].value = v], cache,
                  Notify(<<>>, Added(k, v, v, TRUE)), See(<<>>, Len(ll)))
    ELSE EvictBody(State(PushFront(ll, [key |-> k, value |-> v]),
                         cache \cup {k},
                         Notify(<<>>, Added(k, Zero, v, FALSE)),
                         See(<<>>, Len(ll) + 1)),
                   TRUE, f)

\* The body of Cache.Add.
AddBody(k, v, f) ==
    IF k \in cache
    THEN LET i == Elem(ll, k)
             old == ll[i].value
             l1 == MoveToFront(ll, i)
         IN State([l1 EXCEPT ![1].value = v], cache,
                  Notify(<<>>, Added(k, old, v, TRUE)), See(<<>>, Len(ll)))
    ELSE EvictBody(State(PushFront(ll, [key |-> k, value |-> v]),
                         cache \cup {k},
                         Notify(<<>>, Added(k, Zero, v, FALSE)),
                         See(<<>>, Len(ll) + 1)),
                   TRUE, f)

\* Cache.Len.
CacheLen == IF ~alloc THEN 0 ELSE Len(ll)

\* Faulty variant of Cache.Get: on a miss v is left holding the front value.
GetResult_Stale(k) ==
    IF k \in cache THEN <<ll[Elem(ll, k)].value, TRUE>>
    ELSE <<IF ll # <<>> THEN ll[1].value ELSE Zero, FALSE>>

\* What Cache.Get returns for k: <<value, hit>>.
GetResult(k) ==
    IF k \in cache THEN <<ll[Elem(ll, k)].value, TRUE>> ELSE <<Zero, FALSE>>

----------------------------------------------------------------------------
(* Reference models *)

Touch(t, k) == <<k>> \o Without(t, k)

\* The touch order of the keys that are still held.
Held(t, c) == SelectSeq(t, LAMBDA k : k \in c)

RefAdd(r, k, v) ==
    LET r1 == <<[key |-> k, value |-> v]>> \o WithoutKey(r, k)
    IN IF Policy.kind = "MaxCount"
       THEN SubSeq(r1, 1, Min(Len(r1), Policy.n))
       ELSE <<>>

RefGet(r, k) ==
    IF \E i \in 1..Len(r) : r[i].key = k
    THEN LET i == CHOOSE j \in 1..Len(r) : r[j].key = k
         IN <<r[i]>> \o WithoutKey(r, k)
    ELSE r

----------------------------------------------------------------------------
(* Calls *)

\* A call and what it gave back: hit and val are Get's results (hit is also
\* Remove's result), n is the count Evict or Len returned (for an Add, the
\* count its own Evict call returned), evicts counts the Evict calls made.
Call(op, k, v, hit, val, n, evicts) ==
    [op |-> op, k |-> k, v |-> v, hit |-> hit, val |-> val, n |-> n,
     evicts |-> evicts]

Init ==
    /\ pc = "idle"
    /\ Policy \in Policies
    /\ Handler \in {"nil", "set"}
    /\ alloc \in BOOLEAN
    /\ ll = <<>>
    /\ cache = {}
    /\ last = Call("New", 0, Zero, FALSE, Zero, 0, 0)
    /\ notes = <<>>
    /\ queries = <<>>
    /\ fault = FALSE
    /\ seen = <<>>
    /\ total = 0
    /\ shadow = {}
    /\ touched = <<>>
    /\ ref = <<>>

\* Faulty variant of Cache.Add: the list and the map are not made when they
\* are nil, so the insert into the nil list panics.
Add_NoMaterialize(k, v, f) ==
    /\ ~fault
    /\ \E st \in {IF alloc THEN AddBody(k, v, f)
                   ELSE [State(ll, cache, <<>>, <<>>) EXCEPT !.fault = TRUE]} :
          /\ alloc' = alloc
          /\ ll' = st.ll
          /\ cache' = st.cache
          /\ notes' = st.notes
          /\ queries' = st.queries
          /\ seen' = st.seen
          /\ fault' = st.fault
          /\ last' = Call("Add", k, v, k \in cache, Zero, st.n, st.evicts)
    /\ total' = total + SumDelta(notes')
    /\ shadow' = ShadowApply(shadow, notes')
    /\ touched' = Held(Touch(touched, k), cache')
    /\ ref' = IF alloc THEN RefAdd(ref, k, v) ELSE ref
    /\ UNCHANGED <<pc, Policy, Handler>>

Add(k, v, f) ==
    /\ ~fault
    /\ \E st \in {AddBody(k, v, f)} :
          /\ alloc' = TRUE
          /\ ll' = st.ll
          /\ cache' = st.cache
          /\ notes' = st.notes
          /\ queries' = st.queries
          /\ seen' = st.seen
          /\ fault' = st.fault
          /\ last' = Call("Add", k, v, k \in cache, Zero, st.n, st.evicts)
    /\ total' = total + SumDelta(notes')
    /\ shadow' = ShadowApply(shadow, notes')
    /\ touched' = Held(Touch(touched, k), cache')
    /\ ref' = RefAdd(ref, k, v)
    /\ UNCHANGED <<pc, Policy, Handler>>

Get(k) ==
    /\ ~fault
    /\ IF k \in cache
       THEN ll' = MoveToFront(ll, Elem(ll, k))
       ELSE ll' = ll
    /\ last' = Call("Get", k, Zero, GetResult(k)[2], GetResult(k)[1], 0, 0)
    /\ notes' = <<>>
    /\ seen' = <<>>
    /\ queries' = <<>>
    /\ touched' = IF k \in Range(touched) THEN Touch(touched, k) ELSE touched
    /\ ref' = RefGet(ref, k)
    /\ UNCHANGED <<pc, Policy, Handler, alloc, cache, fault, total, shadow>>

Remove(k) ==
    /\ ~fault
    /\ \E st \in {IF k \in cache
                   THEN removeElement(State(ll, cache, <<>>, <<>>), Elem(ll, k), k)
                   ELSE State(ll, cache, <<>>, <<>>)} :
          /\ ll' = st.ll
          /\ cache' = st.cache
          /\ notes' = st.notes
          /\ seen' = st.seen
          /\ queries' = <<>>
          /\ last' = Call("Remove", k, Zero, k \in cache, Zero, 0, 0)
    /\ total' = total + SumDelta(notes')
    /\ shadow' = ShadowApply(shadow, notes')
    /\ touched' = Held(touched, cache')
    /\ ref' = WithoutKey(ref, k)
    /\ UNCHANGED <<pc, Policy, Handler, alloc, fault>>

Evict(f) ==
    /\ ~fault
    /\ \E st \in {EvictBody(State(ll, cache, <<>>, <<>>), alloc, f)} :
          /\ ll' = st.ll
          /\ cache' = st.cache
          /\ notes' = st.notes
          /\ seen' = st.seen
          /\ queries' = st.queries
          /\ fault' = st.fault
          /\ last' = Call("Evict", 0, Zero, FALSE, Zero, st.n, st.evicts)
    /\ total' = total + SumDelta(notes')
    /\ shadow' = ShadowApply(shadow, notes')
    /\ ref' = IF Policy.kind = "MaxCount"
              THEN SubSeq(ref, 1, Min(Len(ref), Policy.n))
              ELSE ref
    /\ touched' = Held(touched, cache')
    /\ UNCHANGED <<pc, Policy, Handler, alloc>>

LenCall ==
    /\ ~fault
    /\ last' = Call("Len", 0, Zero, FALSE, Zero, CacheLen, 0)
    /\ notes' = <<>>
    /\ seen' = <<>>
    /\ queries' = <<>>
    /\ UNCHANGED <<pc, Policy, Handler, alloc, ll, cache, fault, total, shadow,
                   touched, ref>>

\* Faulty variant of the visit: an entry may be visited twice and another
\* left out.
Orders_Repeat(l) == [1..Len(l) -> 1..Len(l)]

\* The orders in which "range cache" may visit the entries.
Orders(l) == Permutations(1..Len(l))

\* The Handler calls Clear makes when the map is visited in order p.
ClearNotes(p) ==
    IF Handler # "nil"
    THEN [i \in 1..Len(ll) |-> Removed(ll[p[i]].key, ll[p[i]].value)]
    ELSE <<>>

Clear ==
    /\ ~fault
    /\ alloc' = FALSE
    /\ ll' = <<>>
    /\ cache' = {}
    /\ \E p \in Orders(ll) : notes' = ClearNotes(p)
    /\ seen' = [i \in 1..Len(notes') |-> 0]
    /\ queries' = <<>>
    /\ total' = total + SumDelta(notes')
    /\ shadow' = ShadowApply(shadow, notes')
    /\ last' = Call("Clear", 0, Zero, FALSE, Zero, 0, 0)
    /\ touched' = <<>>
    /\ ref' = <<>>
    /\ UNCHANGED <<pc, Policy, Handler, fault>>

Next ==
    \/ \E k \in Keys, v \in Values, f \in PolicyInputs : Add(k, v, f)
    \/ \E k \in Keys : Get(k)
    \/ \E k \in Keys : Remove(k)
    \/ \E f \in PolicyInputs : Evict(f)
    \/ LenCall
    \/ Clear

Spec == Init /\ [][Next]_vars

----------------------------------------------------------------------------
(* The sweep, one loop iteration at a time *)

\* Cache.Add of a key not held, up to its call of c.Evict().
AddBegin(k, v) ==
    /\ pc = "idle" /\ ~fault
    /\ k \notin cache
    /\ pc' = "Add"
    /\ alloc' = TRUE
    /\ ll' = PushFront(ll, [key |-> k, value |-> v])
    /\ cache' = cache \cup {k}
    /\ notes' = Notify(<<>>, Added(k, Zero, v, FALSE))
    /\ seen' = See(<<>>, Len(ll) + 1)
    /\ queries' = <<>>
    /\ last' = Call("Add", k, v, FALSE, Zero, 0, 0)
    /\ UNCHANGED <<Policy, Handler, fault, total, shadow, touched, ref>>

\* Cache.Add of a key held: it returns without a sweep.
AddUpdate(k, v) ==
    /\ pc = "idle"
    /\ k \in cache
    /\ Add(k, v, 0)

\* A call of Cache.Evict by the caller, up to its first statement.
EvictBegin ==
    /\ pc = "idle" /\ ~fault
    /\ pc' = "Evict"
    /\ notes' = <<>>
    /\ seen' = <<>>
    /\ queries' = <<>>
    /\ last' = Call("Evict", 0, Zero, FALSE, Zero, 0, 0)
    /\ UNCHANGED <<Policy, Handler, alloc, ll, cache, fault, total, shadow,
                   touched, ref>>

\* What one call answers to the one query of a loop iteration.
StepInputs == IF Policy.kind = "PolicyFunc" THEN {0, 1} ELSE {0}

\* The state the sweep under way works on.
Working ==
    [ll |-> ll, cache |-> cache, notes |-> notes, seen |-> seen,
     queries |-> queries, n |-> last.n, fault |-> fault, evicts |-> 1]

\* The return of the method whose sweep ends in state st, and what the
\* handler and the reference models hold then.
SweepDone(st) ==
    /\ pc' = "idle"
    /\ ll' = st.ll
    /\ cache' = st.cache
    /\ notes' = st.notes
    /\ seen' = st.seen
    /\ queries' = st.queries
    /\ fault' = st.fault
    /\ last' = [last EXCEPT !.n = st.n, !.evicts = 1]
    /\ total' = total + SumDelta(notes')
    /\ shadow' = ShadowApply(shadow, notes')
    /\ touched' = Held(IF pc = "Add" THEN Touch(touched, last.k) ELSE touched,
                       cache')
    /\ ref' = IF pc = "Add" THEN RefAdd(ref, last.k, last.v)
              ELSE IF Policy.kind = "MaxCount"
              THEN SubSeq(ref, 1, Min(Len(ref), Policy.n))
              ELSE ref
    /\ UNCHANGED <<Policy, Handler, alloc>>

\* One iteration of the loop of Cache.Evict: the policy is asked about the
\* back entry; on true the entry is removed and the loop goes on, on false
\* the loop breaks and the method returns.
SweepAsk(f) ==
    /\ pc # "idle"
    /\ Policy.kind # "nil" /\ alloc /\ ll # <<>>
    /\ LET st == Working
           e == Back(ll)
           ans == PolicyEvict(f, 0, e.key, e.value, Len(ll))
           q == Append(queries, Query(st, e, ans))
       IN IF ans
          THEN \E s \in {removeElement(st, Len(ll), e.key)} :
                  /\ ll' = s.ll
                  /\ cache' = s.cache
                  /\ notes' = s.notes
                  /\ seen' = s.seen
                  /\ queries' = q
                  /\ last' = [last EXCEPT !.n = last.n + 1, !.evicts = 1]
                  /\ UNCHANGED <<pc, Policy, Handler, alloc, fault, total,
                                 shadow, touched, ref>>
          ELSE SweepDone([st EXCEPT !.queries = q])

\* The ways Cache.Evict ends without asking: the policy is nil, or no entry
\* is left, or c.ll is nil and c.ll.Back() panics.
SweepReturn ==
    /\ pc # "idle"
    /\ \/ Policy.kind = "nil" /\ SweepDone(Working)
       \/ Policy.kind # "nil" /\ alloc /\ ll = <<>> /\ SweepDone(Working)
       \/ Policy.kind # "nil" /\ ~alloc
             /\ SweepDone([Working EXCEPT !.fault = TRUE])

SweepStep == (\E f \in StepInputs : SweepAsk(f)) \/ SweepReturn

NextSteps ==
    \/ \E k \in Keys, v \in Values : AddBegin(k, v)
    \/ \E k \in Keys, v \in Values : AddUpdate(k, v)
    \/ EvictBegin
    \/ \E f \in StepInputs : SweepAsk(f)
    \/ SweepReturn
    \/ pc = "idle" /\ \E k \in Keys : Get(k)
    \/ pc = "idle" /\ \E k \in Keys : Remove(k)
    \/ pc = "idle" /\ LenCall
    \/ pc = "idle" /\ Clear

\* Every method runs to completion once called: a sweep under way takes its
\* next step.
SpecSteps == Init /\ [][NextSteps]_vars /\ WF_vars(SweepStep)

----------------------------------------------------------------------------
(* Claims *)

AddedCalls(ns) == SelectSeq(ns, LAMBDA x : x.type = "Added")

RemovedCalls(ns) == SelectSeq(ns, LAMBDA x : x.type = "Removed")

\* C1: every Add on a cache with a policy runs the eviction sweep exactly
\* once, after an insert and after an update alike: the policy is consulted
\* about the back entry after the change.
C1_AddAlwaysSweeps ==
    (last.op = "Add" /\ Policy.kind # "nil") =>
        /\ last.evicts = 1
        /\ queries # <<>>
        /\ (ll = <<>> \/ ~queries[Len(queries)].ans)

\* C2: Evict on a cache whose internals are not materialized (zero value,
\* or right after Clear) completes normally, returns 0, asks the policy
\* nothing and leaves the cache empty.
C2_EvictOnUnmaterialized ==
    (last.op = "Evict" /\ ~alloc) =>
        /\ ~fault
        /\ last.n = 0
        /\ queries = <<>>
        /\ ll = <<>>

\* The touch order a call starts its sweep from.
TouchStart ==
    IF last'.op = "Add" THEN Touch(touched, last'.k) ELSE touched

Reverse(q) == [i \in 1..Len(q) |-> q[Len(q) - i + 1]]

\* C3: the list order, front to back, is the order of most recent touch
\* (Add, or Get hit) of the keys held, most recent first; and the keys a
\* sweep removes are the least recently touched ones, oldest first.
C3_RecencyOrder ==
    /\ [](KeysOf(ll) = touched)
    /\ [][last'.op \in {"Add", "Evict"} =>
             LET t == TouchStart
             IN /\ last'.n <= Len(t)
                /\ KeysOf(ll') = SubSeq(t, 1, Len(t) - last'.n)
                /\ Handler = "set" =>
                      KeysOf(RemovedCalls(notes')) =
                          Reverse(SubSeq(t, Len(t) - last'.n + 1, Len(t)))]_vars

C3_Witness ==
    /\ Policy = [kind |-> "MaxCount", n |-> 2]
    /\ Handler = "set"
    /\ last.op = "Add" /\ last.k = 3
    /\ touched = <<3, 1>>
    /\ KeysOf(ll) = <<3, 1>>
    /\ notes = <<Added(3, Zero, last.v, FALSE), Removed(2, TRUE)>>

\* C4: with MaxCount(N), N >= 1, the cache never holds more than N entries
\* and holds exactly the entries, values and order of a reference capacity-N
\* LRU; an Add removes at most one entry.
C4_MaxCountIsLRU ==
    Policy.kind = "MaxCount" =>
        /\ CacheLen <= Policy.n
        /\ ll = ref
        /\ (last.op = "Add" => last.n <= 1)

C4_Witness ==
    /\ Policy.kind = "MaxCount"
    /\ last.op = "Add" /\ ~last.hit /\ last.n = 1
    /\ Len(ll) = Policy.n
    /\ Len(ll) >= 2

\* The Added call an Add(k, v) owes the handler, from the state before it.
AddedFor(k, v) ==
    IF k \in Range(KeysOf(ll))
    THEN Added(k, ll[Elem(ll, k)].value, v, TRUE)
    ELSE Added(k, Zero, v, FALSE)

\* C5 as stated: with a handler, each Add(k, v) makes exactly one Added
\* call, (k, stored value, v, true) if k was present and (k, zero, v, false)
\* otherwise; and after Add(k, v1); Add(k, v2), Get(k) returns (v2, true)
\* and Len() is what it was before the second Add.
C5_AddThenAddThenGet ==
    [][\A k \in Keys, v \in Values :
          (last'.op = "Add" /\ last'.k = k /\ last'.v = v) =>
              /\ Handler = "set" =>
                    /\ Len(AddedCalls(notes')) = 1
                    /\ notes'[1] = AddedFor(k, v)
              /\ (last.op = "Add" /\ last.k = k) =>
                    /\ GetResult(k)' = <<v, TRUE>>
                    /\ CacheLen' = CacheLen]_vars

\* C5 amended: with a handler, each Add(k, v) makes exactly one Added call,
\* (k, stored value, v, true) if k was present and (k, zero, v, false)
\* otherwise; and when k is still present at the second Add(k, v2), Get(k)
\* returns (v2, true) afterwards and Len() is what it was before that Add.
C5_AddNotifiesAndUpdates ==
    [][\A k \in Keys, v \in Values :
          (last'.op = "Add" /\ last'.k = k /\ last'.v = v) =>
              /\ Handler = "set" =>
                    /\ Len(AddedCalls(notes')) = 1
                    /\ notes'[1] = AddedFor(k, v)
              /\ k \in Range(KeysOf(ll)) =>
                    /\ GetResult(k)' = <<v, TRUE>>
                    /\ CacheLen' = CacheLen]_vars

C5_Witness ==
    /\ Handler = "set"
    /\ last.op = "Add" /\ last.hit
    /\ Len(ll) >= 2
    /\ notes = <<Added(last.k, Zero, TRUE, TRUE)>>
    /\ ll[1] = [key |-> last.k, value |-> TRUE]

\* C6: Get(k) on a present key returns the stored value and found = true and
\* makes k the front entry; Len(), every value and the relative order of the
\* other entries stay as they were.  Hence with MaxCount(2), Add(a); Add(b);
\* Get(a); Add(c) evicts b and keeps a.
C6_GetHitTouches ==
    [][\A k \in Keys :
          /\ (last'.op = "Get" /\ last'.k = k /\ k \in Range(KeysOf(ll))) =>
                /\ last'.hit
                /\ last'.val = ll[Elem(ll, k)].value
                /\ ll'[1] = ll[Elem(ll, k)]
                /\ WithoutKey(ll', k) = WithoutKey(ll, k)
                /\ Len(ll') = Len(ll)
                /\ CacheLen' = CacheLen
          /\ (/\ Policy = [kind |-> "MaxCount", n |-> 2]
              /\ last.op = "Get" /\ last.hit /\ Len(ll) = 2
              /\ last'.op = "Add" /\ last'.k = k
              /\ k \notin Range(KeysOf(ll))) =>
                KeysOf(ll') = <<k, last.k>>]_vars

C6_Witness ==
    /\ last.op = "Get" /\ last.hit
    /\ Len(ll) = 3
    /\ ll[1] = [key |-> last.k, value |-> last.val]
    /\ last.val # Zero

\* C7: Get(k) on a key the cache does not hold returns the zero value and
\* found = false and changes nothing: Len(), contents and order are as
\* before and neither the handler nor the policy is called.
C7_GetMissIsInert ==
    [][\A k \in Keys :
          (last'.op = "Get" /\ last'.k = k /\ k \notin Range(KeysOf(ll))) =>
              /\ ~last'.hit
              /\ last'.val = Zero
              /\ ll' = ll
              /\ cache' = cache
              /\ CacheLen' = CacheLen
              /\ notes' = <<>>
              /\ queries' = <<>>]_vars

C7_Witness ==
    /\ last.op = "Get" /\ ~last.hit
    /\ ll # <<>>
    /\ ll[1].value # Zero

\* C8: Remove(k) on a present key removes exactly that entry, makes one
\* Removed(k, stored value) call and returns true; on an absent key it
\* returns false, changes nothing and makes no call.
C8_RemoveExactlyOne ==
    [][\A k \in Keys :
          (last'.op = "Remove" /\ last'.k = k) =>
              IF k \in Range(KeysOf(ll))
              THEN /\ last'.hit
                   /\ ll' = WithoutKey(ll, k)
                   /\ cache' = cache \ {k}
                   /\ CacheLen' = CacheLen - 1
                   /\ notes' = IF Handler = "set"
                               THEN <<Removed(k, ll[Elem(ll, k)].value)>>
                               ELSE <<>>
                   /\ queries' = <<>>
              ELSE /\ ~last'.hit
                   /\ ll' = ll
                   /\ cache' = cache
                   /\ CacheLen' = CacheLen
                   /\ notes' = <<>>
                   /\ queries' = <<>>]_vars

C8_Witness ==
    /\ Handler = "set"
    /\ last.op = "Remove" /\ last.hit
    /\ Len(ll) = 2
    /\ notes = <<Removed(last.k, TRUE)>>
    /\ last.k \notin cache

\* The key order a sweep starts from: that of the list when the call began,
\* with the new key in front when the call is an Add.
SweepStart ==
    IF last'.op = "Add" THEN <<last'.k>> \o KeysOf(ll) ELSE KeysOf(ll)

Approved(qs) == Len(SelectSeq(qs, LAMBDA q : q.ans))

\* C9: in a sweep the i-th policy query is about the entry that is at the
\* back after i-1 removals, every query but the last is answered true, and
\* the entries removed are exactly the approved run at the back end.
C9_SweepFromBack ==
    [][queries' # <<>> =>
          LET pre == SweepStart
              m == Len(queries')
          IN /\ m <= Len(pre)
             /\ \A i \in 1..m : queries'[i].key = pre[Len(pre) - i + 1]
             /\ \A i \in 1..(m - 1) : queries'[i].ans
             /\ KeysOf(ll') = SubSeq(pre, 1, Len(pre) - Approved(queries'))
             /\ Handler = "set" =>
                   \A i \in 1..Len(RemovedCalls(notes')) :
                       RemovedCalls(notes')[i].key = pre[Len(pre) - i + 1]]_vars

C9_Witness ==
    /\ Policy.kind = "PolicyFunc"
    /\ last.op = "Evict" /\ last.n = 1
    /\ Len(queries) = 2
    /\ ~queries[2].ans
    /\ Len(ll) = 2
    /\ queries[2].key = ll[2].key

\* C10: the count Evict returns is Len() before minus Len() after, and is
\* the number of Removed calls made during the call (one per approved entry).
C10_EvictCount ==
    [][(last'.op = "Evict" /\ ~fault') =>
          /\ last'.n = CacheLen - CacheLen'
          /\ last'.n = Approved(queries')
          /\ Handler = "set" =>
                /\ last'.n = Len(notes')
                /\ RemovedCalls(notes') = notes']_vars

C10_Witness ==
    /\ Handler = "set"
    /\ last.op = "Evict" /\ last.n = 2
    /\ Len(notes) = 2
    /\ Len(queries) = 3
    /\ Len(ll) = 1

\* The entries held when the sweep of the call just made began: for an Add,
\* the new entry is at the front.
SweepEntries ==
    IF last'.op = "Add"
    THEN <<[key |-> last'.k, value |-> last'.v]>> \o ll
    ELSE ll

\* C11: every policy query is about the entry at the back of the list at
\* that moment and carries its key, its stored value and the number of
\* entries held then, the candidate included; that number is never 0 and
\* goes down by exactly one from each query of a sweep to the next.
C11_QueryArguments ==
    [][\A i \in 1..Len(queries') :
          LET pre == SweepEntries
              e == pre[Len(pre) - i + 1]
          IN /\ i <= Len(pre)
             /\ queries'[i].key = e.key
             /\ queries'[i].value = e.value
             /\ queries'[i].n = Len(pre) - i + 1
             /\ queries'[i].n >= 1
             /\ i > 1 => queries'[i].n = queries'[i - 1].n - 1]_vars

C11_Witness ==
    /\ last.op = "Evict"
    /\ Len(queries) = 3
    /\ queries[1].n = 3 /\ queries[2].n = 2 /\ queries[3].n = 1
    /\ queries[1].value /\ ~queries[2].value
    /\ ll = <<>>

\* C12: in a cache without a policy no Add, Get or Evict removes an entry;
\* Evict returns 0 and changes nothing; each Add of a key not held makes
\* Len() one more and each Add of a key held leaves it, so Len() counts the
\* distinct keys added; only Remove and Clear make Len() smaller.
C12_NoPolicyNeverEvicts ==
    /\ [](Policy.kind = "nil" => ~fault)
    /\ [][Policy.kind = "nil" =>
            /\ last'.op \in {"Add", "Get", "Evict", "Len"} =>
                  /\ Range(KeysOf(ll)) \subseteq Range(KeysOf(ll'))
                  /\ RemovedCalls(notes') = <<>>
                  /\ queries' = <<>>
            /\ last'.op = "Evict" =>
                  /\ last'.n = 0
                  /\ ll' = ll /\ cache' = cache /\ alloc' = alloc
                  /\ notes' = <<>>
            /\ last'.op = "Add" =>
                  /\ Range(KeysOf(ll')) = Range(KeysOf(ll)) \cup {last'.k}
                  /\ CacheLen' = CacheLen + (IF last'.k \in cache THEN 0 ELSE 1)
            /\ CacheLen' < CacheLen => last'.op \in {"Remove", "Clear"}]_vars

C12_Witness ==
    /\ Policy.kind = "nil"
    /\ last.op = "Evict" /\ last.n = 0
    /\ Len(ll) = MaxKey
    /\ CacheLen = MaxKey

\* C13: after Clear, Len() is 0 and every Get misses; a configured handler
\* has received exactly one Removed(k, v) for each entry held just before,
\* with the value stored then, none twice and none left out; Clear makes no
\* Added call and no policy query.
C13_ClearNotifiesEach ==
    [][last'.op = "Clear" =>
          /\ CacheLen' = 0
          /\ \A k \in Keys : GetResult(k)' = <<Zero, FALSE>>
          /\ queries' = <<>>
          /\ AddedCalls(notes') = <<>>
          /\ Handler = "nil" => notes' = <<>>
          /\ Handler = "set" =>
                /\ Len(notes') = Len(ll)
                /\ \A i \in 1..Len(ll) :
                      Cardinality({j \in 1..Len(notes') :
                          notes'[j] = Removed(ll[i].key, ll[i].value)}) = 1]_vars

C13_Witness ==
    /\ Handler = "set"
    /\ last.op = "Clear"
    /\ Len(notes) = MaxKey
    /\ \E j \in 1..Len(notes) : notes[j].old
    /\ CacheLen = 0 /\ ll = <<>> /\ queries = <<>>

\* C14: Clear delivers its Removed calls least recently used entry first
\* (the order of adding when nothing was touched since), in exactly that
\* order on every run.
C14_ClearInAddedOrder ==
    [][(last'.op = "Clear" /\ Handler = "set") =>
          notes' = [i \in 1..Len(ll) |->
                       Removed(ll[Len(ll) - i + 1].key,
                               ll[Len(ll) - i + 1].value)]]_vars

\* C15: a cache that holds nothing behaves the same whether its list and
\* map are materialized (freshly constructed and used) or not (zero value,
\* or just cleared): the results, contents, notifications and policy
\* queries of Add, Get, Remove, Len and Clear on it are fixed by the call,
\* the policy and the handler alone, and none of them panics.  Each of these
\* calls leaves the cache either empty again or materialized, so the same
\* holds of every sequence of them.
C15_UnmaterializedIsEmpty ==
    [][(ll = <<>> /\ last'.op \in {"Add", "Get", "Remove", "Len", "Clear"}) =>
          /\ ~fault'
          /\ cache' = Range(KeysOf(ll'))
          /\ last'.op = "Len" =>
                last'.n = 0 /\ ll' = <<>> /\ notes' = <<>> /\ queries' = <<>>
          /\ last'.op = "Get" =>
                /\ ~last'.hit /\ last'.val = Zero
                /\ ll' = <<>> /\ notes' = <<>> /\ queries' = <<>>
          /\ last'.op = "Remove" =>
                ~last'.hit /\ ll' = <<>> /\ notes' = <<>> /\ queries' = <<>>
          /\ last'.op = "Clear" =>
                ll' = <<>> /\ notes' = <<>> /\ queries' = <<>> /\ CacheLen' = 0
          /\ last'.op = "Add" =>
                LET e == [key |-> last'.k, value |-> last'.v]
                    ad == Notify(<<>>, Added(e.key, Zero, e.value, FALSE))
                    kept == /\ ll' = <<e>>
                            /\ notes' = ad
                            /\ CacheLen' = 1
                    gone == /\ ll' = <<>>
                            /\ notes' = Notify(ad, Removed(e.key, e.value))
                            /\ CacheLen' = 0
                IN /\ ~last'.hit
                   /\ Policy.kind = "nil" => kept /\ queries' = <<>>
                   /\ Policy.kind # "nil" =>
                         /\ Len(queries') = 1
                         /\ queries'[1].key = e.key
                         /\ queries'[1].value = e.value
                         /\ queries'[1].n = 1
                         /\ IF queries'[1].ans THEN gone ELSE kept
                   /\ Policy.kind = "MaxCount" => ~queries'[1].ans]_vars

\* A Get has just missed on an unmaterialized cache (Get leaves the list
\* and the map nil, so they were nil when it was called).
C15_Witness ==
    /\ ~alloc
    /\ Handler = "set" /\ Policy.kind = "MaxCount"
    /\ last.op = "Get" /\ ~last.hit /\ last.val = Zero
    /\ CacheLen = 0

\* C16: the index and the list correspond one to one: the keys of the index
\* are the keys of the list entries, no key is on the list twice, and Len()
\* is the size of the index.
C16_IndexMatchesList ==
    /\ cache = Range(KeysOf(ll))
    /\ \A i, j \in 1..Len(ll) : ll[i].key = ll[j].key => i = j
    /\ CacheLen = Cardinality(cache)
    /\ Len(ll) = Cardinality(cache)

C16_Witness ==
    /\ last.op = "Remove" /\ last.hit /\ last.k = 2
    /\ KeysOf(ll) = <<3, 1>>
    /\ cache = {1, 3}
    /\ CacheLen = 2

\* C17: behaviour is deterministic: the same call made in the same state
\* with the same policy answers gives the same results, contents, queries
\* and notification sequence on every run.  Add, Get, Remove, Evict and Len
\* are functions of the state and their inputs; for Clear this says that the
\* notifications of the run taken are those of every other visit order.
C17_Deterministic ==
    [][last'.op = "Clear" =>
          \A p \in Orders(ll) :
              /\ notes' = ClearNotes(p)
              /\ ll' = <<>> /\ cache' = {} /\ queries' = <<>>]_vars

\* C18: every removal, by Remove, by a sweep or by Clear, takes one entry
\* out and then notifies: inside the i-th Removed call of an operation
\* exactly the i entries notified so far have left, so Len() read there is
\* the number of entries held when the operation's removals began less i.
C18_RemovedSeesOneGone ==
    [][Handler = "set" =>
          \A i \in 1..Len(notes') :
              notes'[i].type = "Removed" =>
                  seen'[i] = Len(SweepEntries)
                               - Len(RemovedCalls(SubSeq(notes', 1, i)))]_vars

\* C19: in an Add of a new key the Added call is made when the entry is in
\* the cache and before the first policy query, and in a sweep each Removed
\* call is made before the next policy query; so at every query a running
\* total of value sizes kept by the handler (less old, plus new on Added;
\* less the value on Removed) is the sum over the entries held just then.
C19_PolicySeesCurrentTotal ==
    /\ [](Handler = "set" => total = SizeOf(ll))
    /\ [][Handler = "set" =>
            /\ (last'.op = "Add" /\ ~last'.hit) =>
                  /\ notes'[1] = Added(last'.k, Zero, last'.v, FALSE)
                  /\ seen'[1] = Len(ll) + 1
                  /\ \A i \in 1..Len(queries') : queries'[i].noted = i
            /\ last'.op = "Evict" =>
                  \A i \in 1..Len(queries') : queries'[i].noted = i - 1
            /\ \A i \in 1..Len(queries') :
                  /\ queries'[i].total = queries'[i].size
                  /\ i > 1 => notes'[queries'[i].noted] =
                                 Removed(queries'[i - 1].key,
                                         queries'[i - 1].value)]_vars

C19_Witness ==
    /\ Handler = "set"
    /\ last.op = "Add" /\ ~last.hit /\ last.v
    /\ Len(queries) = 2
    /\ queries[1].total = 2 /\ queries[1].size = 2 /\ queries[1].noted = 1
    /\ queries[2].total = 1 /\ queries[2].size = 1 /\ queries[2].noted = 2
    /\ total = 1

\* Each call of ns agrees with the map sh kept so far: a Removed call is
\* about a key of sh and carries its value; an Added call carries as old
\* the value sh has for the key, or the zero value when sh has none.
RECURSIVE NotesFit(_, _)
NotesFit(sh, ns) ==
    \/ ns = <<>>
    \/ /\ ns # <<>>
       /\ LET x == Head(ns)
              held == {e \in sh : e.key = x.key}
          IN IF x.type = "Removed"
             THEN held = {[key |-> x.key, value |-> x.old]}
             ELSE /\ held \subseteq {[key |-> x.key, value |-> x.old]}
                  /\ held = {} => x.old = Zero
                  /\ x.update = (held # {})
       /\ NotesFit(ShadowApply(sh, <<Head(ns)>>), Tail(ns))

\* C20: the handler's calls are a complete change log: a map kept from them
\* alone (Added sets k to new, Removed deletes k) is the key-to-value content
\* of the cache after every operation; each Removed call carries the value
\* that map holds for its key and each Added call carries as old the value
\* it held before (the zero value when it held none).
C20_NotificationsAreChangeLog ==
    /\ [](Handler = "set" => shadow = Range(ll))
    /\ [][Handler = "set" => NotesFit(shadow, notes')]_vars

C20_Witness ==
    /\ Handler = "set"
    /\ last.op = "Add" /\ last.hit /\ last.k = 1 /\ ~last.v
    /\ notes = <<Added(1, TRUE, FALSE, TRUE)>>
    /\ shadow = {[key |-> 1, value |-> FALSE], [key |-> 2, value |-> TRUE]}
    /\ shadow = Range(ll)

\* Between calls of SpecSteps the handler's map and total are those of the
\* contents, as they are in Spec.
StepsAtRest ==
    (pc = "idle" /\ Handler = "set") =>
        shadow = Range(ll) /\ total = SizeOf(ll)

\* C21: every eviction sweep terminates, whatever the policy answers: each
\* policy query that does not end the sweep removes one entry, so a sweep
\* begun with m entries makes at most m removals and at most m queries
\* (m is the number of entries left plus the removals made so far); a sweep
\* whose every query was answered true ends with the cache empty, and an
\* Add under such a policy has evicted the entry it inserted and returns
\* with Len() = 0.
C21_SweepTerminates ==
    /\ (pc # "idle") ~> (pc = "idle")
    /\ [](pc # "idle" =>
            /\ last.n = Approved(queries)
            /\ last.n <= Len(ll) + last.n
            /\ Len(queries) <= Len(ll) + last.n)
    /\ [][pc # "idle" =>
            /\ Len(ll') + last'.n = Len(ll) + last.n
            /\ Len(queries') <= Len(ll) + last.n
            /\ pc' # "idle" =>
                  /\ Len(ll') = Len(ll) - 1
                  /\ Len(queries') = Len(queries) + 1
            /\ (/\ pc' = "idle" /\ ~fault' /\ Policy.kind # "nil"
                /\ \A i \in 1..Len(queries') : queries'[i].ans) =>
                  /\ ll' = <<>> /\ cache' = {}
                  /\ CacheLen' = 0
                  /\ pc = "Add" => last'.k \notin cache'
                                     /\ last'.n = Len(queries')]_vars

C21_Witness ==
    /\ pc = "idle"
    /\ Policy.kind = "PolicyFunc"
    /\ last.op = "Add" /\ last.k = 3 /\ last.n = 3
    /\ Len(queries) = 3
    /\ \A i \in 1..Len(queries) : queries[i].ans
    /\ queries[3].key = 3
    /\ ll = <<>> /\ CacheLen = 0

====
